---- MODULE Spec2Model ----
(***************************************************************************)
(* The S3 upload Lambda of src/main.go: Handler in its two variants (the   *)
(* compress-and-encrypt variant of lines 1-144 and the plain variant of    *)
(* lines 146-236), the BucketBasics wrappers, compressAndEncrypt,          *)
(* compressZstd and encrypt, run by several concurrent invocations against *)
(* one storage backend and one wall clock.                                 *)
(***************************************************************************)
EXTENDS Integers, Sequences, FiniteSets, TLC

VARIABLES variant, now, buckets, objects, inv

vars == <<variant, now, buckets, objects, inv>>

(* ------------------------------ bounds -------------------------------- *)

\* Concurrent invocations of Handler the host runs.
NumInvocations == 2
\* Last instant of the wall clock, in ticks.
MaxClock == 2
\* Clock ticks per wall-clock second (the sub-second part Format drops).
TicksPerSecond == 2
\* Longest request body of the single-invocation specification.
MaxLen == 4

Invocations == 1..NumInvocations
Variants == {"compress", "plain"}
\* Byte values of request bodies; 121 is 'y', the first byte of the key.
Bytes == {0, 1, 121}
\* The request body of the concurrent specification.
Bodies == {<<1, 1>>}
\* Request bodies of the single-invocation specification.
AllBodies == UNION {[1..n -> Bytes] : n \in 0..MaxLen}

(* --------------------------- program constants ------------------------ *)

StatusInternalServerError == 500
StatusOK == 200
\* []byte("your-encryption-key")
Key == <<121, 111, 117, 114, 45, 101, 110, 99, 114, 121, 112, 116, 105, 111,
         110, 45, 107, 101, 121>>
\* The magic number that opens a Zstandard frame (0xFD2FB528, little endian).
ZstdMagic == <<40, 181, 47, 253>>

(* ------------------------------- names -------------------------------- *)

Format_Ticks(t) == t
\* time.Now().Format("20060102-150405"): the instant cut to whole seconds.
Format(t) == t \div TicksPerSecond

\* bucketName := prefix + time.Now().Format(...)
BucketName(v, t) ==
    [prefix |-> IF v = "compress" THEN "filename" ELSE "your-prefix-",
     stamp  |-> Format(t)]

\* fileName := "upload-" + time.Now().Format(...) (+ ".zst")
FileName(v, t) ==
    [prefix |-> "upload-",
     stamp  |-> Format(t),
     suffix |-> IF v = "compress" THEN ".zst" ELSE ""]

NoName == [prefix |-> "", stamp |-> -1]

(* ------------------------------ transform ----------------------------- *)

\* Length of the run of equal bytes that opens the non-empty sequence s.
RECURSIVE RunLength(_)
RunLength(s) ==
    IF Len(s) >= 2 /\ s[2] = s[1] THEN 1 + RunLength(Tail(s)) ELSE 1

\* The blocks of the frame: the input as <<run length, byte>> pairs.
RECURSIVE ZstdBlocks(_)
ZstdBlocks(s) ==
    IF s = <<>> THEN <<>>
    ELSE LET n == RunLength(s)
         IN  <<n, s[1]>> \o ZstdBlocks(SubSeq(s, n + 1, Len(s)))

\* What encoder.Write(data) followed by encoder.Close() leaves in buf.
ZstdFrame(data) == ZstdMagic \o ZstdBlocks(data)

RECURSIVE Repeat(_, _)
Repeat(b, n) == IF n <= 0 THEN <<>> ELSE <<b>> \o Repeat(b, n - 1)

RECURSIVE ZstdExpand(_)
ZstdExpand(s) ==
    IF Len(s) < 2 THEN <<>>
    ELSE Repeat(s[2], s[1]) \o ZstdExpand(SubSeq(s, 3, Len(s)))

\* The decoder of the frame format: [ok, data].
ZstdDecode(f) ==
    IF Len(f) >= Len(ZstdMagic) /\ SubSeq(f, 1, Len(ZstdMagic)) = ZstdMagic
    THEN [ok |-> TRUE, data |-> ZstdExpand(SubSeq(f, Len(ZstdMagic) + 1, Len(f)))]
    ELSE [ok |-> FALSE, data |-> <<>>]

\* compressZstd: newErr and writeErr are the outcomes of zstd.NewWriter and
\* encoder.Write.  encoder is the state the encoder is left in on return.
compressZstd(data, newErr, writeErr) ==
    IF newErr
    THEN [out |-> <<>>, err |-> "init", encoder |-> "none"]
    ELSE IF writeErr
         THEN [out |-> <<>>, err |-> "write", encoder |-> "open"]
         ELSE [out |-> ZstdFrame(data), err |-> "nil", encoder |-> "closed"]

encrypt_Shift(data, key) == [k \in 1..Len(data) |-> (data[k] + 1) % 256]
\* encrypt returns its input.
encrypt(data, key) == data

\* compressAndEncrypt: compress, encrypt, result := append(key, encrypted...)
compressAndEncrypt(data, newErr, writeErr) ==
    LET c == compressZstd(data, newErr, writeErr)
    IN  IF c.err # "nil"
        THEN [out |-> <<>>, err |-> "compress", encoder |-> c.encoder]
        ELSE [out |-> Key \o encrypt(c.out, Key), err |-> "nil",
              encoder |-> c.encoder]

(* --------------------------- storage backend -------------------------- *)

\* S3Client.CreateBucket: rejected when the backend faults or the name is
\* already taken, otherwise the bucket exists from now on.
S3CreateBucket(bs, name, fault) ==
    IF fault \/ name \in bs
    THEN [err |-> TRUE, buckets |-> bs]
    ELSE [err |-> FALSE, buckets |-> bs \cup {name}]

\* S3Client.PutObject: rejected when the backend faults or the bucket is
\* missing, otherwise the object under (bucket, key) is replaced.
S3PutObject(bs, objs, bucket, key, data, by, fault) ==
    IF fault \/ bucket \notin bs
    THEN [err |-> TRUE, objects |-> objs]
    ELSE [err |-> FALSE,
          objects |-> {o \in objs : ~(o.bucket = bucket /\ o.key = key)}
                        \cup {[bucket |-> bucket, key |-> key,
                               body |-> data, by |-> by]}]

CreateBucket_Swallow(bs, name, fault) ==
    [S3CreateBucket(bs, name, fault) EXCEPT !.err = FALSE]
\* BucketBasics.CreateBucket: the SDK call, a log line on error, return err.
CreateBucket(bs, name, fault) == S3CreateBucket(bs, name, fault)

\* BucketBasics.UploadFileToS3: the SDK call, a log line on error, return err.
UploadFileToS3(bs, objs, bucket, key, data, by, fault) ==
    S3PutObject(bs, objs, bucket, key, data, by, fault)

(* ------------------------------- Handler ------------------------------ *)

ErrorResponse_Leak(stage) ==
    [StatusCode |-> StatusInternalServerError, Body |-> stage]
\* return events.APIGatewayProxyResponse{StatusCode: 500}, nil
ErrorResponse(stage) ==
    [StatusCode |-> StatusInternalServerError, Body |-> ""]

SuccessResponse_Created ==
    [StatusCode |-> 201, Body |-> "File successfully uploaded to S3."]
\* return events.APIGatewayProxyResponse{StatusCode: 200, Body: "..."}, nil
SuccessResponse ==
    [StatusCode |-> StatusOK, Body |-> "File successfully uploaded to S3."]

NextStage_IgnoreCreateErr(stage, err, v) ==
    IF err /\ stage # "createBucket" THEN "done"
    ELSE CASE stage = "loadConfig"   -> "createBucket"
           [] stage = "createBucket" -> IF v = "compress" THEN "transform"
                                                          ELSE "upload"
           [] stage = "transform"    -> "upload"
           [] stage = "upload"       -> "done"
NextStage_IgnoreTransformErr(stage, err, v) ==
    IF err /\ stage # "transform" THEN "done"
    ELSE CASE stage = "loadConfig"   -> "createBucket"
           [] stage = "createBucket" -> IF v = "compress" THEN "transform"
                                                          ELSE "upload"
           [] stage = "transform"    -> "upload"
           [] stage = "upload"       -> "done"
NextStage_Retry(stage, err, v) ==
    IF err THEN (IF stage = "upload" THEN "upload" ELSE "done")
    ELSE CASE stage = "loadConfig"   -> "createBucket"
           [] stage = "createBucket" -> IF v = "compress" THEN "transform"
                                                          ELSE "upload"
           [] stage = "transform"    -> "upload"
           [] stage = "upload"       -> "done"
\* The control flow of Handler: where it goes after `stage` returned err.
\* Every `if err != nil` returns; otherwise the next statement runs.
NextStage(stage, err, v) ==
    IF err THEN "done"
    ELSE CASE stage = "loadConfig"   -> "createBucket"
           [] stage = "createBucket" -> IF v = "compress" THEN "transform"
                                                          ELSE "upload"
           [] stage = "transform"    -> "upload"
           [] stage = "upload"       -> "done"

OnStageError_Delete(bs, name) == bs \ {name}
\* What an error return of Handler does to the backend after the bucket
\* was created: nothing, the return statement is all there is.
OnStageError(bs, name) == bs

\* The handler returns resp: the invocation is over.
Respond(r, resp) ==
    [r EXCEPT !.pc = "done", !.status = resp.StatusCode,
              !.respBody = resp.Body, !.responses = @ + 1]

\* The invocation after `stage` returned err.
After(r, stage, err, v) ==
    LET r1 == [r EXCEPT !.failed = IF err /\ @ = "none" THEN stage ELSE @]
        n  == NextStage(stage, err, v)
    IN  IF n = "done"
        THEN Respond(r1, IF err THEN ErrorResponse(stage) ELSE SuccessResponse)
        ELSE [r1 EXCEPT !.pc = n]

Idle ==
    [pc |-> "idle", body |-> <<>>, arrived |-> -1, bucketAt |-> -1,
     fileAt |-> -1, bucketName |-> NoName, fileName |-> NoName,
     payload |-> <<>>, calls |-> <<>>, failed |-> "none",
     createErr |-> FALSE, encoder |-> "none", status |-> 0,
     respBody |-> "", responses |-> 0]

Init ==
    /\ variant \in Variants
    /\ now = 0
    /\ buckets = {}
    /\ objects = {}
    /\ inv = [i \in Invocations |-> Idle]

\* The host runtime hands a request with body b to Handler.
Invoke(i, b) ==
    /\ inv[i].pc = "idle"
    /\ inv' = [inv EXCEPT ![i] = [@ EXCEPT !.pc = "loadConfig", !.body = b,
                                           !.arrived = now]]
    /\ UNCHANGED <<variant, now, buckets, objects>>

\* cfg, err := config.LoadDefaultConfig(ctx)
LoadConfig(i, err) ==
    /\ inv[i].pc = "loadConfig"
    /\ inv' = [inv EXCEPT ![i] =
                 After([@ EXCEPT !.calls = Append(@, "LoadDefaultConfig")],
                       "loadConfig", err, variant)]
    /\ UNCHANGED <<variant, now, buckets, objects>>

\* bucketName := ... time.Now() ...; err = basics.CreateBucket(bucketName, ...)
CreateBucketStep(i, fault) ==
    /\ inv[i].pc = "createBucket"
    /\ LET name == BucketName(variant, now)
           sdk  == S3CreateBucket(buckets, name, fault)
           res  == CreateBucket(buckets, name, fault)
           r    == [inv[i] EXCEPT !.bucketName = name, !.bucketAt = now,
                                  !.createErr = sdk.err,
                                  !.calls = Append(@, "CreateBucket")]
       IN  /\ buckets' = res.buckets
           /\ inv' = [inv EXCEPT ![i] = After(r, "createBucket", res.err, variant)]
    /\ UNCHANGED <<variant, now, objects>>

\* fileName := ... time.Now() ...; compressAndEncrypt([]byte(request.Body))
Transform(i, newErr, writeErr) ==
    /\ inv[i].pc = "transform"
    /\ LET t == compressAndEncrypt(inv[i].body, newErr, writeErr)
           r == [inv[i] EXCEPT !.fileName = FileName(variant, now),
                               !.fileAt = now, !.payload = t.out,
                               !.encoder = t.encoder,
                               !.calls = Append(@, "compressAndEncrypt")]
       IN  /\ inv' = [inv EXCEPT ![i] = After(r, "transform", t.err # "nil", variant)]
           /\ buckets' = IF t.err # "nil"
                         THEN OnStageError(buckets, inv[i].bucketName)
                         ELSE buckets
    /\ UNCHANGED <<variant, now, objects>>

\* err = basics.UploadFileToS3(bucketName, fileName, data), then the response.
\* The plain variant reads the clock for fileName right before the call and
\* uploads the request body as it came.
Upload(i, fault) ==
    /\ inv[i].pc = "upload"
    /\ LET plain == variant = "plain"
           key   == IF plain THEN FileName(variant, now) ELSE inv[i].fileName
           data  == IF plain THEN inv[i].body ELSE inv[i].payload
           res   == UploadFileToS3(buckets, objects, inv[i].bucketName, key,
                                   data, i, fault)
           r     == [inv[i] EXCEPT !.fileName = key,
                                   !.fileAt = IF plain THEN now ELSE @,
                                   !.payload = data,
                                   !.calls = Append(@, "PutObject")]
       IN  /\ objects' = res.objects
           /\ inv' = [inv EXCEPT ![i] = After(r, "upload", res.err, variant)]
           /\ buckets' = IF res.err
                         THEN OnStageError(buckets, inv[i].bucketName)
                         ELSE buckets
    /\ UNCHANGED <<variant, now>>

\* The wall clock advances.
Tick ==
    /\ now < MaxClock
    /\ now' = now + 1
    /\ UNCHANGED <<variant, buckets, objects, inv>>

Next ==
    \/ \E i \in Invocations, b \in Bodies : Invoke(i, b)
    \/ \E i \in Invocations, err \in BOOLEAN : LoadConfig(i, err)
    \/ \E i \in Invocations, fault \in BOOLEAN : CreateBucketStep(i, fault)
    \/ \E i \in Invocations, newErr, writeErr \in BOOLEAN :
          Transform(i, newErr, writeErr)
    \/ \E i \in Invocations, fault \in BOOLEAN : Upload(i, fault)
    \/ Tick

Spec == Init /\ [][Next]_vars

\* One invocation alone, over every request body up to MaxLen bytes.
NextOne ==
    \/ \E b \in AllBodies : Invoke(1, b)
    \/ \E err \in BOOLEAN : LoadConfig(1, err)
    \/ \E fault \in BOOLEAN : CreateBucketStep(1, fault)
    \/ \E newErr, writeErr \in BOOLEAN : Transform(1, newErr, writeErr)
    \/ \E fault \in BOOLEAN : Upload(1, fault)
    \/ Tick

SpecOne == Init /\ [][NextOne]_vars

(* ------------------------- helpers of the claims ---------------------- *)

Called(i, call) == \E k \in 1..Len(inv[i].calls) : inv[i].calls[k] = call

Count(i, call) == Cardinality({k \in 1..Len(inv[i].calls) : inv[i].calls[k] = call})

IsPrefix(s, t) == Len(s) <= Len(t) /\ SubSeq(t, 1, Len(s)) = s

\* The calls of an invocation in which every stage succeeds.
FullRun ==
    IF variant = "compress"
    THEN <<"LoadDefaultConfig", "CreateBucket", "compressAndEncrypt", "PutObject">>
    ELSE <<"LoadDefaultConfig", "CreateBucket", "PutObject">>

CallOf(stage) ==
    CASE stage = "loadConfig"   -> "LoadDefaultConfig"
      [] stage = "createBucket" -> "CreateBucket"
      [] stage = "transform"    -> "compressAndEncrypt"
      [] stage = "upload"       -> "PutObject"

Done(i) == inv[i].pc = "done"

\* Two instants of the same wall-clock second.
SameSecond(t, u) == t \div TicksPerSecond = u \div TicksPerSecond

\* compressAndEncrypt ran in invocation i and returned no error.
Transformed(i) == Called(i, "compressAndEncrypt") /\ inv[i].failed # "transform"

(* -------------------------------- claims ------------------------------ *)

\* C1: when the CreateBucket call of an invocation returned an error, that
\* invocation never calls PutObject.
C1_NoUploadAfterCreateError ==
    \A i \in Invocations : inv[i].createErr => ~Called(i, "PutObject")

C1_Witness ==
    \E i \in Invocations : Done(i) /\ inv[i].createErr /\ Called(i, "CreateBucket")

\* C2: whichever of the four stages fails, the response is status 500 with
\* an empty body.
C2_UniformErrorResponse ==
    \A i \in Invocations :
        (Done(i) /\ inv[i].failed # "none") =>
            /\ inv[i].status = 500
            /\ inv[i].respBody = ""

C2_Witness ==
    \E i, j \in Invocations :
        /\ Done(i) /\ inv[i].failed = "transform" /\ inv[i].status = 500
        /\ Done(j) /\ inv[j].failed = "upload" /\ inv[j].status = 500

\* C3: for every request body, the empty one included, a run in which every
\* stage succeeds answers 200 with the fixed body, and 200 is answered only
\* by such a run.
C3_SuccessResponse ==
    \A i \in Invocations :
        Done(i) =>
            /\ (inv[i].failed = "none" /\ inv[i].calls = FullRun) =>
                  (inv[i].status = 200
                   /\ inv[i].respBody = "File successfully uploaded to S3.")
            /\ inv[i].status = 200 =>
                  /\ inv[i].failed = "none"
                  /\ inv[i].calls = FullRun
                  /\ ~inv[i].createErr
                  /\ variant = "compress" => inv[i].encoder = "closed"
                  /\ \E o \in objects : o.by = i /\ o.body = inv[i].payload

C3_Witness ==
    \E i \in Invocations :
        /\ variant = "compress"
        /\ Done(i) /\ inv[i].body = <<>> /\ inv[i].status = 200

C5_TransformRoundTrip ==
    \A i \in Invocations :
        Transformed(i) =>
            LET out  == inv[i].payload
                rest == SubSeq(out, Len(Key) + 1, Len(out))
            IN  /\ Len(out) >= Len(Key)
                /\ SubSeq(out, 1, Len(Key)) = Key
                /\ rest = ZstdFrame(inv[i].body)
                /\ ZstdDecode(rest) = [ok |-> TRUE, data |-> inv[i].body]

C5_Witness ==
    \E i \in Invocations :
        /\ Transformed(i)
        /\ inv[i].body = <<121, 121, 0, 1>>

\* C6: once compressZstd has created the encoder, the encoder is closed on
\* every return of compressZstd, the return after a failed Write included.
C6_EncoderClosedOnEveryExit ==
    \A i \in Invocations :
        (Called(i, "compressAndEncrypt") /\ inv[i].encoder # "none") =>
            inv[i].encoder = "closed"

\* C7: the stages run in the order config load, bucket creation, transform,
\* object write; PutObject is called only after CreateBucket and the
\* transform succeeded; the first failing stage is the last stage run.
C7_StagesInOrder ==
    \A i \in Invocations :
        /\ IsPrefix(inv[i].calls, FullRun)
        /\ Called(i, "PutObject") =>
              /\ ~inv[i].createErr
              /\ variant = "compress" => inv[i].encoder = "closed"
        /\ inv[i].failed # "none" =>
              /\ Done(i)
              /\ inv[i].calls[Len(inv[i].calls)] = CallOf(inv[i].failed)
        /\ (variant = "compress" /\ inv[i].encoder \in {"none", "open"}
            /\ Called(i, "compressAndEncrypt")) => Done(i)

C7_Witness ==
    \E i, j \in Invocations :
        /\ variant = "compress"
        /\ Done(i) /\ inv[i].calls = FullRun
        /\ Done(j) /\ inv[j].failed = "transform"

\* C8: a bucket whose creation succeeded is still there when a later stage
\* failed and the invocation answered 500; the buckets are exactly those the
\* invocations created.
C8_BucketLeftBehind ==
    /\ \A i \in Invocations :
          (Done(i) /\ inv[i].status = 500
           /\ Called(i, "CreateBucket") /\ ~inv[i].createErr) =>
              inv[i].bucketName \in buckets
    /\ buckets = {inv[i].bucketName :
                    i \in {j \in Invocations :
                             Called(j, "CreateBucket") /\ ~inv[j].createErr}}

C8_Witness ==
    \E i, j \in Invocations :
        /\ Done(i) /\ inv[i].status = 500 /\ inv[i].failed = "upload"
        /\ inv[i].bucketName \in buckets
        /\ Done(j) /\ inv[j].status = 500 /\ inv[j].failed = "transform"
        /\ inv[j].bucketName \in buckets

\* C9: an invocation calls CreateBucket at most once and PutObject at most
\* once, whether they succeed or fail, and answers exactly once.
C9_AtMostOnce ==
    \A i \in Invocations :
        /\ Count(i, "CreateBucket") <= 1
        /\ Count(i, "PutObject") <= 1
        /\ inv[i].responses <= 1
        /\ Done(i) <=> inv[i].responses = 1
        /\ Done(i) <=> inv[i].status # 0

C9_Witness ==
    \E i, j \in Invocations :
        /\ Done(i) /\ inv[i].failed = "upload" /\ Count(i, "PutObject") = 1
        /\ Done(j) /\ inv[j].failed = "createBucket"
        /\ Count(j, "CreateBucket") = 1

\* C10: of two invocations with the same bucket name at most one creates the
\* bucket, the other answers 500 without calling PutObject, and an object an
\* invocation wrote is not overwritten by another invocation.
C10_NoOverwriteOnCollision ==
    /\ \A i, j \in Invocations :
          (i # j /\ Called(i, "CreateBucket") /\ Called(j, "CreateBucket")
           /\ inv[i].bucketName = inv[j].bucketName) =>
              /\ inv[i].createErr \/ inv[j].createErr
              /\ inv[j].createErr =>
                    /\ ~Called(j, "PutObject")
                    /\ Done(j) /\ inv[j].status = 500
    /\ \A i \in Invocations :
          (Done(i) /\ inv[i].status = 200) =>
              [bucket |-> inv[i].bucketName, key |-> inv[i].fileName,
               body |-> inv[i].payload, by |-> i] \in objects

C10_Witness ==
    \E i, j \in Invocations :
        /\ i # j
        /\ inv[i].bucketName = inv[j].bucketName
        /\ Done(i) /\ inv[i].status = 200
        /\ Done(j) /\ inv[j].createErr /\ inv[j].status = 500

====
